---- MODULE Spec2Model ----
(***************************************************************************)
(* Payment validation and entitlement lifecycle of the pay-via-stars bot,  *)
(* in its two variants: main_2x.py (aiogram 2.x) and main_3x.py (3.x).     *)
(*                                                                         *)
(* A handler is a coroutine: the code between two awaits runs atomically,  *)
(* and every await of a gateway call either returns or raises.  A task is  *)
(* one running handler; its pc is the await it is suspended at.            *)
(* Strings are sequences of one-character strings, so prefix and substring *)
(* tests are computed as Python computes them.                             *)
(***************************************************************************)
EXTENDS Integers, Sequences, FiniteSets, TLC

\* ---------------------------------------------------------------- policy
PREMIUM_DURATION_DAYS == 1
STAR_PRICE == 10
MIN_PAYMENT == 1
MAX_PAYMENT == 2500

\* ---------------------------------------------------------------- bounds
\* The clock runs 0..MaxTime, in ticks; a day is TicksPerDay ticks.
MaxTime == 3
TicksPerDay == 2
\* Updates the gateway delivers in one run, and handlers in flight at once.
MaxEvents == 3
\* Updates delivered in one run of the whole bot, with every handler and
\* every input.
MaxBotEvents == 2
MaxTasks == 2
\* Largest duration the store-level specification passes to activate, and
\* the activate calls it makes in one run.
MaxDays == 2
MaxStoreCalls == 2
\* Pre-checkout queries the pre-checkout specification takes in one run.
MaxPreAuthQueries == 2

Variants == {"2x", "3x"}
UserIds == {4, 42, 99}
\* The users who talk to the bot in a run of the whole bot.
Payers == {4, 42}
Currencies == {"XTR", "USD", "xtr"}
Amounts == {MIN_PAYMENT - 1, MIN_PAYMENT, STAR_PRICE, MAX_PAYMENT, MAX_PAYMENT + 1}
ChargeIds == {"ch_1", "ch_2"}
ExcTypes == {"TelegramAPIError", "Exception"}
CallbackData == {"premium_info", "user_stats"}

\* ---------------------------------------------------------------- strings
Digits == <<"0", "1", "2", "3", "4", "5", "6", "7", "8", "9">>

\* Python's str(int): decimal digits, most significant first.
RECURSIVE str(_)
str(n) ==
    IF n < 0 THEN <<"-">> \o str(-n)
    ELSE IF n < 10 THEN <<Digits[n + 1]>>
    ELSE str(n \div 10) \o <<Digits[(n % 10) + 1]>>

\* Python's s.startswith(p).
startswith(s, p) == Len(s) >= Len(p) /\ SubSeq(s, 1, Len(p)) = p

\* Python's `sub in s` on strings.
str_in(sub, s) ==
    \E i \in 1..(Len(s) - Len(sub) + 1) : SubSeq(s, i, i + Len(sub) - 1) = sub

PREFIX_3X == <<"p", "r", "e", "m", "i", "u", "m", "_">>
PREFIX_2X == PREFIX_3X \o <<"s", "u", "b", "s", "c", "r", "i", "p", "t", "i", "o", "n", "_">>

\* The product prefix each variant's pre-checkout handler tests for.
ProductPrefix(v) == IF v = "2x" THEN PREFIX_2X ELSE PREFIX_3X

InvoicePayload_one_format(v, u) ==
    PREFIX_3X \o str(u) \o <<"_">> \o str(PREMIUM_DURATION_DAYS) \o <<"d", "a", "y">>

\* The invoice payload /start builds for user u.
InvoicePayload(v, u) ==
    IF v = "2x"
    THEN PREFIX_2X \o str(u) \o <<"_">> \o str(PREMIUM_DURATION_DAYS)
    ELSE PREFIX_3X \o str(u) \o <<"_">> \o str(PREMIUM_DURATION_DAYS) \o <<"d", "a", "y">>

GoldPayload == <<"g", "o", "l", "d", "_", "4", "2">>
\* Payloads a pre-checkout query or a completed payment may carry: every
\* invoice payload of either variant, the bare 3.x prefix, a foreign
\* product's payload and the empty string.
Payloads ==
    {InvoicePayload(v, u) : v \in Variants, u \in UserIds}
        \cup {PREFIX_3X, GoldPayload, <<>>}

\* ---------------------------------------------------------------- validators
AmountInBounds(amount) == MIN_PAYMENT <= amount /\ amount <= MAX_PAYMENT

\* The pre-checkout decision of each variant.
PreAuthValid(v, currency, amount, payload, user_id) ==
    IF v = "2x"
    THEN /\ currency = "XTR"
         /\ AmountInBounds(amount)
         /\ startswith(payload, PREFIX_2X)
         /\ str_in(str(user_id), payload)
    ELSE /\ currency = "XTR"
         /\ AmountInBounds(amount)
         /\ startswith(payload, PREFIX_3X)

ValidCompleted_AmountOnly(currency, amount) == AmountInBounds(amount)
ValidCompleted_ExclusiveMax(currency, amount) ==
    currency = "XTR" /\ MIN_PAYMENT <= amount /\ amount < MAX_PAYMENT

\* The completed-payment decision (the same in both variants).
ValidCompleted(currency, amount) == currency = "XTR" /\ AmountInBounds(amount)

\* ---------------------------------------------------------------- store
\* active_subscriptions: a dict, here a function whose domain is the keys.
Put(d, k, val) == [x \in (DOMAIN d) \cup {k} |-> IF x = k THEN val ELSE d[x]]

timedelta(days) == days * TicksPerDay

activate_premium_clock_subtracted(subs, user_id, days, clock) ==
    Put(subs, user_id, timedelta(days) - clock)
activate_premium_evicting(subs, user_id, days, clock) ==
    Put([x \in {y \in DOMAIN subs : subs[y] > clock} |-> subs[x]],
        user_id, clock + timedelta(days))
activate_premium_keep_first(subs, user_id, days, clock) ==
    IF user_id \in DOMAIN subs THEN subs
    ELSE Put(subs, user_id, clock + timedelta(days))
activate_premium_reset(subs, user_id, days, clock) ==
    Put(<<>>, user_id, clock + timedelta(days))
activate_premium_stacking(subs, user_id, days, clock) ==
    Put(subs, user_id,
        (IF user_id \in DOMAIN subs /\ subs[user_id] > clock
         THEN subs[user_id] ELSE clock) + timedelta(days))

\* activate_premium (2.x) / add_subscription (3.x): clock is datetime.now().
activate_premium(subs, user_id, days, clock) ==
    Put(subs, user_id, clock + timedelta(days))

check_premium_status_has_entry(subs, user_id, clock) == user_id \in DOMAIN subs
check_premium_status_default_active(subs, user_id, clock) ==
    IF user_id \notin DOMAIN subs THEN TRUE ELSE clock < subs[user_id]
check_premium_status_day_margin(subs, user_id, clock) ==
    IF user_id \notin DOMAIN subs THEN FALSE
    ELSE clock + timedelta(1) <= subs[user_id]

\* check_premium_status (2.x) / is_premium_active (3.x).
check_premium_status(subs, user_id, clock) ==
    IF user_id \notin DOMAIN subs THEN FALSE ELSE clock < subs[user_id]

None == -1
get_expiry_date(subs, user_id) ==
    IF user_id \in DOMAIN subs THEN subs[user_id] ELSE None

record_payment(history, payment_id, user_id, amount, currency, clock) ==
    Put(history, payment_id,
        [user_id |-> user_id, amount |-> amount, currency |-> currency,
         timestamp |-> clock, status |-> "completed"])

\* ---------------------------------------------------------------- state
VARIABLES
    variant,               \* which of the two programs runs: "2x" or "3x"
    now,                   \* the wall clock, datetime.now()
    active_subscriptions,  \* payment_manager / payment_handler .active_subscriptions
    payment_history,       \* payment_manager.payment_history (2.x only)
    tasks,                 \* the handler coroutines in flight, by slot
    events,                \* updates dispatched so far
    activations,           \* the "Premium subscription activated" log lines
    invoices,              \* invoices the gateway accepted from /start
    approvals              \* pre-checkout queries whose answer(ok=True) returned

vars == <<variant, now, active_subscriptions, payment_history, tasks, events,
          activations, invoices, approvals>>

Slots == 1..MaxTasks
NoCharge == "none"

\* A task: the update's fields (user is from_user.id, chat is chat.id, which
\* only /start reads), the await it is suspended at (pc), the
\* gateway calls it has issued (calls) and those that returned (sent), whether
\* an exception left the handler (escaped), whether the invalid-payment
\* warning was logged (warned), the activate calls it made (act) with the
\* expiry the last one returned (expiry_date), and what /status or the
\* statistics callback put in its text (shown).
Idle ==
    [kind |-> "idle", pc |-> "idle", user |-> 0, chat |-> 0, currency |-> "", amount |-> 0,
     payload |-> <<>>, charge |-> NoCharge, data |-> "", calls |-> <<>>,
     sent |-> <<>>, escaped |-> FALSE, warned |-> FALSE, act |-> 0,
     expiry_date |-> None, shown |-> <<>>]

\* A handler that has just been entered for an update.
NewTask(kind, user, currency, amount, payload, charge, data) ==
    [Idle EXCEPT !.kind = kind, !.user = user, !.currency = currency,
                 !.amount = amount, !.payload = payload, !.charge = charge,
                 !.data = data]

\* Task t issues gateway call `call` and is suspended at pc until it ends.
Await(t, pc, call) == [t EXCEPT !.pc = pc, !.calls = Append(@, call)]
\* The awaited call returned: the gateway has it.
Returned(t, pc) == [t EXCEPT !.pc = pc, !.sent = Append(@, t.calls[Len(t.calls)])]
\* The exception leaves the handler.
Escaped(t) == [t EXCEPT !.pc = "done", !.escaped = TRUE]

Free(i) == tasks[i].pc \in {"idle", "done"}
CanDispatch == events < MaxEvents /\ \E i \in Slots : Free(i)
FreeSlot == CHOOSE i \in Slots : Free(i) /\ \A j \in Slots : Free(j) => i <= j

\* The dispatcher enters a handler for the next update, in the first free slot.
Start(t) ==
    /\ CanDispatch
    /\ tasks' = [tasks EXCEPT ![FreeSlot] = t]
    /\ events' = events + 1

Init ==
    /\ variant \in Variants
    /\ now = 0
    /\ active_subscriptions = <<>>
    /\ payment_history = <<>>
    /\ tasks = [i \in Slots |-> Idle]
    /\ events = 0
    /\ activations = <<>>
    /\ invoices = {}
    /\ approvals = {}

\* The clock advances between any two steps.
Tick ==
    /\ now < MaxTime
    /\ now' = now + 1
    /\ UNCHANGED <<variant, active_subscriptions, payment_history, tasks, events,
                   activations, invoices, approvals>>

\* ---------------------------------------------------------------- pre-checkout
\* process_pre_checkout_query / pre_checkout_query, up to its first await:
\* the validation and the answer call it issues.
PreCheckoutQuery(user_id, currency, amount, payload) ==
    LET t == NewTask("pre_checkout", user_id, currency, amount, payload, NoCharge, "")
    IN  /\ Start(IF PreAuthValid(variant, currency, amount, payload, user_id)
                 THEN Await(t, "pre_answer", "ok")
                 ELSE Await(t, "pre_answer", "reject_invalid"))
        /\ UNCHANGED <<variant, now, active_subscriptions, payment_history,
                       activations, invoices, approvals>>

\* The answer call returns: the gateway has the answer.
PreCheckoutAnswered(i) ==
    /\ tasks[i].pc = "pre_answer"
    /\ tasks' = [tasks EXCEPT ![i] = Returned(@, "done")]
    /\ approvals' =
         IF tasks[i].calls = <<"ok">>
         THEN approvals \cup {[user |-> tasks[i].user, currency |-> tasks[i].currency,
                               amount |-> tasks[i].amount, payload |-> tasks[i].payload]}
         ELSE approvals
    /\ UNCHANGED <<variant, now, active_subscriptions, payment_history, events,
                   activations, invoices>>

\* The answer call raises: the matching except clause issues a reject.
PreCheckoutAnswerRaises(i, exc) ==
    /\ tasks[i].pc = "pre_answer"
    /\ tasks' = [tasks EXCEPT ![i] =
                   Await(@, "pre_except",
                         IF exc = "TelegramAPIError" THEN "reject_technical"
                         ELSE "reject_unexpected")]
    /\ UNCHANGED <<variant, now, active_subscriptions, payment_history, events,
                   activations, invoices, approvals>>

\* The reject issued by the except clause returns.
PreCheckoutExceptAnswered(i) ==
    /\ tasks[i].pc = "pre_except"
    /\ tasks' = [tasks EXCEPT ![i] = Returned(@, "done")]
    /\ UNCHANGED <<variant, now, active_subscriptions, payment_history, events,
                   activations, invoices, approvals>>

\* The reject issued by the except clause raises: nothing catches it.
PreCheckoutExceptRaises(i, exc) ==
    /\ tasks[i].pc = "pre_except"
    /\ tasks' = [tasks EXCEPT ![i] = Escaped(@)]
    /\ UNCHANGED <<variant, now, active_subscriptions, payment_history, events,
                   activations, invoices, approvals>>

PreCheckoutStep ==
    \E i \in Slots :
        \/ PreCheckoutAnswered(i)
        \/ PreCheckoutExceptAnswered(i)
        \/ \E exc \in ExcTypes :
               PreCheckoutAnswerRaises(i, exc) \/ PreCheckoutExceptRaises(i, exc)

\* ---------------------------------------------------------------- completed payment
\* One "Premium subscription activated" line, with the payment it was for.
NoPayment == [currency |-> "", amount |-> 0, payload |-> <<>>, charge |-> NoCharge]
Activation(user_id, days, clock, expiry, payment) ==
    [user |-> user_id, days |-> days, at |-> clock, expiry |-> expiry,
     currency |-> payment.currency, amount |-> payment.amount,
     payload |-> payment.payload, charge |-> payment.charge]

\* successful_payment_handler / successful_payment, up to its first await.
\* Accepted: record_payment (2.x), activate, then the success message is sent.
\* Otherwise the rejection message is sent.  2.x reads the clock three
\* times: record_payment at now, activate_premium at t_act and the
\* activation date of the success message at t_msg; 3.x reads it once, in
\* add_subscription.
SuccessfulPayment(user_id, currency, amount, payload, charge, t_act, t_msg) ==
    LET t == NewTask("payment", user_id, currency, amount, payload, charge, "")
        subs == activate_premium(active_subscriptions, user_id,
                                 PREMIUM_DURATION_DAYS, t_act)
    IN  /\ now <= t_act /\ t_act <= t_msg
        /\ (variant = "3x" \/ ~ValidCompleted(currency, amount))
                => (t_act = now /\ t_msg = now)
        /\ now' = t_msg
        /\ IF ValidCompleted(currency, amount)
           THEN /\ Start(Await([t EXCEPT !.act = 1, !.expiry_date = subs[user_id]],
                               "pay_send", "pay_success"))
                /\ payment_history' =
                       IF variant = "2x"
                       THEN record_payment(payment_history, charge, user_id, amount,
                                           currency, now)
                       ELSE payment_history
                /\ active_subscriptions' = subs
                /\ activations' = Append(activations,
                       Activation(user_id, PREMIUM_DURATION_DAYS, t_act, subs[user_id],
                                  [currency |-> currency, amount |-> amount,
                                   payload |-> payload, charge |-> charge]))
                /\ UNCHANGED <<variant, invoices, approvals>>
           ELSE /\ Start(Await(t, "pay_send", "pay_rejected"))
                /\ UNCHANGED <<variant, active_subscriptions, payment_history,
                               activations, invoices, approvals>>

\* message.answer returns: the user has the message; after the rejection
\* message the warning is logged.
PaymentSent(i) ==
    /\ tasks[i].pc = "pay_send"
    /\ tasks' = [tasks EXCEPT ![i] =
                   [Returned(@, "done") EXCEPT !.warned = (tasks[i].calls = <<"pay_rejected">>)]]
    /\ UNCHANGED <<variant, now, active_subscriptions, payment_history, events,
                   activations, invoices, approvals>>

\* message.answer raises: except Exception sends the generic failure message.
PaymentSendRaises(i, exc) ==
    /\ tasks[i].pc = "pay_send"
    /\ tasks' = [tasks EXCEPT ![i] = Await(@, "pay_except", "pay_error")]
    /\ UNCHANGED <<variant, now, active_subscriptions, payment_history, events,
                   activations, invoices, approvals>>

PaymentExceptSent(i) ==
    /\ tasks[i].pc = "pay_except"
    /\ tasks' = [tasks EXCEPT ![i] = Returned(@, "done")]
    /\ UNCHANGED <<variant, now, active_subscriptions, payment_history, events,
                   activations, invoices, approvals>>

PaymentExceptRaises(i, exc) ==
    /\ tasks[i].pc = "pay_except"
    /\ tasks' = [tasks EXCEPT ![i] = Escaped(@)]
    /\ UNCHANGED <<variant, now, active_subscriptions, payment_history, events,
                   activations, invoices, approvals>>

PaymentStep ==
    \E i \in Slots :
        \/ PaymentSent(i)
        \/ PaymentExceptSent(i)
        \/ \E exc \in ExcTypes :
               PaymentSendRaises(i, exc) \/ PaymentExceptRaises(i, exc)

\* ---------------------------------------------------------------- /start
\* cmd_start up to its first await: the premium check, then either the
\* already-premium reply, or the welcome message (2.x) / the invoice (3.x).
CmdStart(user_id, chat_id) ==
    LET t == [NewTask("start", user_id, "", 0, <<>>, NoCharge, "")
                EXCEPT !.chat = chat_id]
    IN  /\ Start(IF check_premium_status(active_subscriptions, user_id, now)
                 THEN Await(t, "start_already", "already_premium")
                 ELSE IF variant = "2x"
                      THEN Await(t, "start_welcome", "welcome")
                      ELSE Await(t, "start_invoice", "invoice"))
        /\ UNCHANGED <<variant, now, active_subscriptions, payment_history,
                       activations, invoices, approvals>>

\* The already-premium reply returns (the handler returns), or the invoice
\* call returns: the gateway has the invoice, which 2.x addresses to
\* from_user.id and 3.x to chat.id.
StartSent(i) ==
    /\ tasks[i].pc \in {"start_already", "start_invoice"}
    /\ tasks' = [tasks EXCEPT ![i] = Returned(@, "done")]
    /\ invoices' =
         IF tasks[i].pc = "start_invoice"
         THEN invoices \cup {[chat |-> IF variant = "2x" THEN tasks[i].user
                                        ELSE tasks[i].chat,
                              payload |-> InvoicePayload(variant, tasks[i].user),
                              currency |-> "XTR", amount |-> STAR_PRICE]}
         ELSE invoices
    /\ UNCHANGED <<variant, now, active_subscriptions, payment_history, events,
                   activations, approvals>>

\* 2.x: the welcome message returns and sendInvoice is requested.
StartWelcomeSent(i) ==
    /\ tasks[i].pc = "start_welcome"
    /\ tasks' = [tasks EXCEPT ![i] = Await(Returned(@, "start_welcome"),
                                           "start_invoice", "invoice")]
    /\ UNCHANGED <<variant, now, active_subscriptions, payment_history, events,
                   activations, invoices, approvals>>

\* A call in the try block raises: the matching except clause answers.
StartRaises(i, exc) ==
    /\ tasks[i].pc \in {"start_already", "start_welcome", "start_invoice"}
    /\ tasks' = [tasks EXCEPT ![i] =
                   Await(@, "start_except",
                         IF exc = "TelegramAPIError" THEN "start_error_api"
                         ELSE "start_error_unexpected")]
    /\ UNCHANGED <<variant, now, active_subscriptions, payment_history, events,
                   activations, invoices, approvals>>

StartExceptSent(i) ==
    /\ tasks[i].pc = "start_except"
    /\ tasks' = [tasks EXCEPT ![i] = Returned(@, "done")]
    /\ UNCHANGED <<variant, now, active_subscriptions, payment_history, events,
                   activations, invoices, approvals>>

StartExceptRaises(i, exc) ==
    /\ tasks[i].pc = "start_except"
    /\ tasks' = [tasks EXCEPT ![i] = Escaped(@)]
    /\ UNCHANGED <<variant, now, active_subscriptions, payment_history, events,
                   activations, invoices, approvals>>

StartStep ==
    \E i \in Slots :
        \/ StartSent(i)
        \/ StartWelcomeSent(i)
        \/ StartExceptSent(i)
        \/ \E exc \in ExcTypes : StartRaises(i, exc) \/ StartExceptRaises(i, exc)

\* ---------------------------------------------------------------- /status
\* hours_remaining = int(remaining_time.total_seconds() // 3600)
HoursRemaining(expiry, clock) == ((expiry - clock) * 24) \div TicksPerDay

\* cmd_status up to its await.  2.x reads the clock a second time, at t2,
\* after the activity check read it at now.
CmdStatus(user_id, t2) ==
    LET t == NewTask("status", user_id, "", 0, <<>>, NoCharge, "")
        active == check_premium_status(active_subscriptions, user_id, now)
    IN  /\ t2 >= now
        /\ (variant = "3x" \/ ~active) => t2 = now
        /\ Start(IF active
                 THEN Await([t EXCEPT !.shown =
                               <<[expiry |-> get_expiry_date(active_subscriptions, user_id),
                                  hours |-> IF variant = "2x"
                                            THEN HoursRemaining(active_subscriptions[user_id], t2)
                                            ELSE None]>>],
                            "status_send", "status_active")
                 ELSE Await(t, "status_send", "status_inactive"))
        /\ now' = t2
        /\ UNCHANGED <<variant, active_subscriptions, payment_history,
                       activations, invoices, approvals>>

StatusSent(i) ==
    /\ tasks[i].pc = "status_send"
    /\ tasks' = [tasks EXCEPT ![i] = Returned(@, "done")]
    /\ UNCHANGED <<variant, now, active_subscriptions, payment_history, events,
                   activations, invoices, approvals>>

StatusSendRaises(i, exc) ==
    /\ tasks[i].pc = "status_send"
    /\ tasks' = [tasks EXCEPT ![i] = Await(@, "status_except", "status_error")]
    /\ UNCHANGED <<variant, now, active_subscriptions, payment_history, events,
                   activations, invoices, approvals>>

StatusExceptSent(i) ==
    /\ tasks[i].pc = "status_except"
    /\ tasks' = [tasks EXCEPT ![i] = Returned(@, "done")]
    /\ UNCHANGED <<variant, now, active_subscriptions, payment_history, events,
                   activations, invoices, approvals>>

StatusExceptRaises(i, exc) ==
    /\ tasks[i].pc = "status_except"
    /\ tasks' = [tasks EXCEPT ![i] = Escaped(@)]
    /\ UNCHANGED <<variant, now, active_subscriptions, payment_history, events,
                   activations, invoices, approvals>>

StatusStep ==
    \E i \in Slots :
        \/ StatusSent(i)
        \/ StatusExceptSent(i)
        \/ \E exc \in ExcTypes : StatusSendRaises(i, exc) \/ StatusExceptRaises(i, exc)

\* ---------------------------------------------------------------- /help (2.x)
\* cmd_help has no try: its one send either returns or raises out of it.
CmdHelp(user_id) ==
    /\ variant = "2x"
    /\ Start(Await(NewTask("help", user_id, "", 0, <<>>, NoCharge, ""),
                   "help_send", "help"))
    /\ UNCHANGED <<variant, now, active_subscriptions, payment_history,
                   activations, invoices, approvals>>

HelpSent(i) ==
    /\ tasks[i].pc = "help_send"
    /\ tasks' = [tasks EXCEPT ![i] = Returned(@, "done")]
    /\ UNCHANGED <<variant, now, active_subscriptions, payment_history, events,
                   activations, invoices, approvals>>

HelpRaises(i, exc) ==
    /\ tasks[i].pc = "help_send"
    /\ tasks' = [tasks EXCEPT ![i] = Escaped(@)]
    /\ UNCHANGED <<variant, now, active_subscriptions, payment_history, events,
                   activations, invoices, approvals>>

HelpStep == \E i \in Slots : HelpSent(i) \/ \E exc \in ExcTypes : HelpRaises(i, exc)

\* ---------------------------------------------------------------- callbacks (2.x)
\* process_callback up to its first await, bot.answer_callback_query.
ProcessCallback(user_id, data) ==
    /\ variant = "2x"
    /\ Start(Await(NewTask("callback", user_id, "", 0, <<>>, NoCharge, data),
                   "cb_answer", "callback_answer"))
    /\ UNCHANGED <<variant, now, active_subscriptions, payment_history,
                   activations, invoices, approvals>>

\* The callback is answered; the text is built (user_stats reads the store)
\* and bot.send_message is awaited.
CallbackAnswered(i) ==
    /\ tasks[i].pc = "cb_answer"
    /\ LET t == Returned(tasks[i], "cb_answer")
           is_premium == check_premium_status(active_subscriptions, t.user, now)
       IN tasks' = [tasks EXCEPT ![i] =
            IF t.data = "premium_info"
            THEN Await(t, "cb_send", "info")
            ELSE Await([t EXCEPT !.shown =
                          <<[expiry |-> IF is_premium
                                        THEN get_expiry_date(active_subscriptions, t.user)
                                        ELSE None,
                             hours |-> None]>>],
                       "cb_send", "stats")]
    /\ UNCHANGED <<variant, now, active_subscriptions, payment_history, events,
                   activations, invoices, approvals>>

CallbackSent(i) ==
    /\ tasks[i].pc = "cb_send"
    /\ tasks' = [tasks EXCEPT ![i] = Returned(@, "done")]
    /\ UNCHANGED <<variant, now, active_subscriptions, payment_history, events,
                   activations, invoices, approvals>>

\* Any of its awaits raises: except Exception logs the error and sends nothing.
CallbackRaises(i, exc) ==
    /\ tasks[i].pc \in {"cb_answer", "cb_send"}
    /\ tasks' = [tasks EXCEPT ![i].pc = "done"]
    /\ UNCHANGED <<variant, now, active_subscriptions, payment_history, events,
                   activations, invoices, approvals>>

CallbackStep ==
    \E i \in Slots :
        \/ CallbackAnswered(i)
        \/ CallbackSent(i)
        \/ \E exc \in ExcTypes : CallbackRaises(i, exc)

\* ---------------------------------------------------------------- the bot
\* Completed payments the gateway delivers: any payer, any charge id, XTR
\* with every boundary amount or USD with an amount within the bounds, and
\* a payload that is the invoice payload issued to user 4 (the payer's own,
\* or another user's) or a foreign product's.
PaymentCurrencies == {"XTR", "USD"}
PaymentAmounts == {MIN_PAYMENT - 1, MIN_PAYMENT, MAX_PAYMENT, MAX_PAYMENT + 1}
PaymentMoney ==
    {<<"XTR", a>> : a \in PaymentAmounts} \cup {<<"USD", MIN_PAYMENT>>}
\* /start arrives in the user's private chat, whose id is the user's, or in
\* a group chat.
GroupChat == -100
Chats(u) == {u, GroupChat}
PaymentPayloads == {InvoicePayload(variant, 4), GoldPayload}

Dispatch ==
    \/ \E u \in Payers : \E chat \in Chats(u) : CmdStart(u, chat)
    \/ \E u \in Payers, t2 \in 0..MaxTime : CmdStatus(u, t2)
    \/ \E u \in Payers : CmdHelp(u)
    \/ \E u \in Payers, d \in CallbackData : ProcessCallback(u, d)
    \/ \E u \in Payers, c \in PaymentCurrencies, p \in PaymentPayloads :
           PreCheckoutQuery(u, c, STAR_PRICE, p)
    \/ \E u \in Payers, m \in PaymentMoney, p \in PaymentPayloads,
          ch \in ChargeIds, t_act, t_msg \in 0..MaxTime :
           SuccessfulPayment(u, m[1], m[2], p, ch, t_act, t_msg)

\* No handler is in flight.
Quiescent == \A i \in Slots : Free(i)

\* The whole bot: an update is handed to its handler while the handlers of
\* earlier updates are suspended at their awaits.
Next ==
    \/ Tick
    \/ events < MaxBotEvents /\ Dispatch
    \/ StartStep
    \/ StatusStep
    \/ HelpStep
    \/ CallbackStep
    \/ PreCheckoutStep
    \/ PaymentStep

Spec == Init /\ [][Next]_vars

\* The pre-checkout handler alone over every combination of payer,
\* currency, amount and payload.  The handler reads and writes no shared
\* state, so the queries are taken one at a time here; Next interleaves
\* pre-checkout handlers with every other handler.
NextPreAuth ==
    \/ \E u \in UserIds, c \in Currencies, a \in Amounts, p \in Payloads :
           /\ Quiescent /\ events < MaxPreAuthQueries
           /\ PreCheckoutQuery(u, c, a, p)
    \/ PreCheckoutStep

SpecPreAuth == Init /\ [][NextPreAuth]_vars

\* The entitlement store alone: activate called directly, with any user and
\* any duration, as the clock advances.
StoreActivate(user_id, days) ==
    LET subs == activate_premium(active_subscriptions, user_id, days, now)
    IN  /\ events < MaxStoreCalls
        /\ events' = events + 1
        /\ active_subscriptions' = subs
        /\ activations' = Append(activations,
               Activation(user_id, days, now, subs[user_id], NoPayment))
        /\ UNCHANGED <<variant, now, payment_history, tasks, invoices, approvals>>

\* A caller reads the store for a user at the current time: is the user
\* active, and which expiry is stored.  It holds both values until it returns.
StoreCheck(user_id) ==
    /\ tasks' = [tasks EXCEPT ![1] =
           [NewTask("check", user_id, "", 0, <<>>, NoCharge, "") EXCEPT
               !.pc = "check_return",
               !.calls = <<IF check_premium_status(active_subscriptions, user_id, now)
                           THEN "active" ELSE "inactive">>,
               !.expiry_date = get_expiry_date(active_subscriptions, user_id)]]
    /\ UNCHANGED <<variant, now, active_subscriptions, payment_history, events,
                   activations, invoices, approvals>>

StoreCheckReturn ==
    /\ tasks[1].pc = "check_return"
    /\ tasks' = [tasks EXCEPT ![1] = Idle]
    /\ UNCHANGED <<variant, now, active_subscriptions, payment_history, events,
                   activations, invoices, approvals>>

NextStore ==
    \/ Quiescent /\ Tick
    \/ \E u \in UserIds, d \in 1..MaxDays : Quiescent /\ StoreActivate(u, d)
    \/ \E u \in UserIds : Quiescent /\ StoreCheck(u)
    \/ StoreCheckReturn

SpecStore == Init /\ [][NextStore]_vars

\* Handlers interleaving at their awaits: completed payments and /status
\* queries of the payers are entered while other handlers are suspended.
NextConcurrent ==
    \/ Tick
    \/ \E u \in Payers, ch \in ChargeIds, t_act, t_msg \in 0..MaxTime :
           SuccessfulPayment(u, "XTR", STAR_PRICE, InvoicePayload(variant, u), ch,
                             t_act, t_msg)
    \/ \E u \in Payers, t2 \in 0..MaxTime : CmdStatus(u, t2)
    \/ PaymentStep
    \/ StatusStep

SpecConcurrent == Init /\ [][NextConcurrent]_vars

\* The gateway has the pre-checkout handler's approval of invoice inv for
\* payer u.
Approved(inv, u) ==
    [user |-> u, currency |-> inv.currency, amount |-> inv.amount,
     payload |-> inv.payload] \in approvals

\* Purchases, interleaving at the awaits: /start, then the pre-checkout
\* query the gateway makes for an invoice /start issued, with the invoice's
\* fields and the user who sent /start as payer, then, once approved, the
\* completed payment with the same fields. The clock advances between any
\* two steps.
NextRoundTrip ==
    \/ Tick
    \/ \E u \in UserIds : \E chat \in Chats(u) : CmdStart(u, chat)
    \/ StartStep
    \/ \E inv \in invoices, u \in UserIds :
           /\ inv.payload = InvoicePayload(variant, u)
           /\ PreCheckoutQuery(u, inv.currency, inv.amount, inv.payload)
    \/ PreCheckoutStep
    \/ \E inv \in invoices, u \in UserIds, ch \in ChargeIds, t_act, t_msg \in 0..MaxTime :
           /\ inv.payload = InvoicePayload(variant, u) /\ Approved(inv, u)
           /\ SuccessfulPayment(u, inv.currency, inv.amount, inv.payload, ch,
                                t_act, t_msg)
    \/ PaymentStep

SpecRoundTrip == Init /\ [][NextRoundTrip]_vars

\* ================================================================ claims
\* The policy as the specification states it.
WithinPolicy(currency, amount) ==
    currency = "XTR" /\ amount >= MIN_PAYMENT /\ amount <= MAX_PAYMENT
\* The payload carries the variant's product prefix and the payer's id.
BoundToPayer(payload, user_id) ==
    startswith(payload, ProductPrefix(variant)) /\ str_in(str(user_id), payload)
\* A user's stored expiry, None without an entry.
EntryOf(subs, u) == IF u \in DOMAIN subs THEN subs[u] ELSE None
IsPayment(t) == t.kind = "payment"
IsPreCheckout(t) == t.kind = "pre_checkout"
LastActivation(log) == log[Len(log)]

\* C1: the answer the pre-checkout handler decides on is ok=True if and only
\* if the currency is XTR, the amount is within [MIN_PAYMENT, MAX_PAYMENT],
\* the payload starts with the product prefix and the payload contains the
\* stringified payer id, in either variant.
C1_PreAuthOkIffAllFour ==
    \A i \in Slots :
        IsPreCheckout(tasks[i]) =>
            ((tasks[i].calls[1] = "ok") <=>
                (/\ WithinPolicy(tasks[i].currency, tasks[i].amount)
                 /\ BoundToPayer(tasks[i].payload, tasks[i].user)))

\* C2: a completed payment delivered twice (same payer, amount, currency,
\* payload and provider charge id) causes one activation, not two.
C2_OneActivationPerPayment ==
    \A j, k \in DOMAIN activations :
        (/\ activations[j].charge = activations[k].charge
         /\ activations[j].user = activations[k].user
         /\ activations[j].currency = activations[k].currency
         /\ activations[j].amount = activations[k].amount
         /\ activations[j].payload = activations[k].payload) => j = k

\* C3: a pre-checkout query whose payload is the invoice payload of a user
\* other than the payer is never approved.
C3_ForeignPayloadNeverApproved ==
    \A i \in Slots :
        (IsPreCheckout(tasks[i]) /\ tasks[i].calls[1] = "ok") =>
            \A a \in UserIds \ {tasks[i].user} :
                tasks[i].payload # InvoicePayload(variant, a)

\* C4: when the pre-checkout handler has ended, the gateway has exactly one
\* answer for the query, whichever of its calls raised.
C4_ExactlyOneAnswer ==
    \A i \in Slots :
        (IsPreCheckout(tasks[i]) /\ tasks[i].pc = "done") => Len(tasks[i].sent) = 1

\* C5: a completed payment in XTR with an amount within the bounds, whatever
\* its payer, payload and charge id: entering the handler makes exactly one
\* activation, for the payer and PREMIUM_DURATION_DAYS, the stored expiry
\* becomes the clock value activate read (between the handler's entry and
\* its first await) + 1 day, and the outcome the handler hands to the gateway is
\* the success message, which the user has once that send returns; no later
\* step of the handler activates again.
C5_ValidPaymentActivates ==
    [][\A i \in Slots :
         (/\ IsPayment(tasks'[i])
          /\ WithinPolicy(tasks'[i].currency, tasks'[i].amount)
          /\ tasks'[i] # tasks[i]) =>
            IF events' # events
            THEN /\ Len(activations') = Len(activations) + 1
                 /\ LastActivation(activations').user = tasks'[i].user
                 /\ LastActivation(activations').days = PREMIUM_DURATION_DAYS
                 /\ LastActivation(activations').charge = tasks'[i].charge
                 /\ now <= LastActivation(activations').at
                 /\ LastActivation(activations').at <= now'
                 /\ EntryOf(active_subscriptions', tasks'[i].user)
                        = LastActivation(activations').at
                            + PREMIUM_DURATION_DAYS * TicksPerDay
                 /\ tasks'[i].expiry_date
                        = EntryOf(active_subscriptions', tasks'[i].user)
                 /\ tasks'[i].calls = <<"pay_success">>
            ELSE /\ activations' = activations
                 /\ active_subscriptions' = active_subscriptions
                 /\ (tasks'[i].pc = "done" /\ Len(tasks'[i].calls) = 1)
                        => tasks'[i].sent = <<"pay_success">>
    ]_vars

\* C5 witness: a payment of MAX_PAYMENT XTR was handled to its end, the
\* user has the success message and the stored expiry is the one returned.
C5_Witness ==
    \E i \in Slots :
        /\ IsPayment(tasks[i]) /\ tasks[i].pc = "done"
        /\ tasks[i].currency = "XTR" /\ tasks[i].amount = MAX_PAYMENT
        /\ tasks[i].sent = <<"pay_success">>
        /\ tasks[i].act = 1
        /\ EntryOf(active_subscriptions, tasks[i].user) = tasks[i].expiry_date

\* What the handler hands to the gateway for a payment it rejects: first
\* the rejection message, after it at most the generic failure message, and
\* never the success message.
FailureReported(t) ==
    /\ t.act = 0
    /\ Len(t.calls) >= 1 /\ t.calls[1] = "pay_rejected"
    /\ \A k \in DOMAIN t.calls : t.calls[k] \in {"pay_rejected", "pay_error"}
    /\ (t.pc = "done" /\ Len(t.calls) = 1) => t.sent = <<"pay_rejected">>

\* C6: a completed payment in another currency or with an amount outside the
\* bounds: no step of its handler activates, active_subscriptions and
\* payment_history stay as they were, and the outcome is a failure.
C6_InvalidPaymentChangesNothing ==
    [][\A i \in Slots :
         (/\ IsPayment(tasks'[i])
          /\ ~WithinPolicy(tasks'[i].currency, tasks'[i].amount)
          /\ tasks'[i] # tasks[i]) =>
            /\ activations' = activations
            /\ active_subscriptions' = active_subscriptions
            /\ payment_history' = payment_history
            /\ FailureReported(tasks'[i])
    ]_vars

\* C6 witness: after an activation, an in-bounds payment in USD was handled
\* to its end and the user has the rejection message.
C6_Witness ==
    \E i \in Slots :
        /\ IsPayment(tasks[i]) /\ tasks[i].pc = "done"
        /\ tasks[i].currency = "USD" /\ tasks[i].amount = MIN_PAYMENT
        /\ tasks[i].sent = <<"pay_rejected">>
        /\ Len(activations) = 1
        /\ DOMAIN active_subscriptions # {}

\* C7: premium is activated only for a completed payment whose payload
\* carries the product prefix and the paying user's id.
C7_ActivationOnlyForBoundPayload ==
    \A k \in DOMAIN activations :
        BoundToPayer(activations[k].payload, activations[k].user)

\* C8: a step changes user u's entry of active_subscriptions only if it is
\* the entry of the completed-payment handler for a payment within the
\* policy whose sender is u, making one activation for u; no other step,
\* and no activation for another user, changes u's entry.
C8_EntryChangesOnlyByOwnValidPayment ==
    [][\A u \in UserIds :
         EntryOf(active_subscriptions', u) # EntryOf(active_subscriptions, u) =>
            /\ events' = events + 1
            /\ Len(activations') = Len(activations) + 1
            /\ LastActivation(activations').user = u
            /\ \E i \in Slots :
                 /\ tasks'[i] # tasks[i]
                 /\ IsPayment(tasks'[i])
                 /\ tasks'[i].user = u
                 /\ WithinPolicy(tasks'[i].currency, tasks'[i].amount)
                 /\ tasks'[i].act = 1
    ]_vars

\* C8 witness: both users hold an entry, each from its own payment: the
\* second activation left the first user's entry in place.
C8_Witness ==
    /\ Len(activations) = 2
    /\ activations[1].user # activations[2].user
    /\ EntryOf(active_subscriptions, activations[1].user) = activations[1].expiry
    /\ EntryOf(active_subscriptions, activations[2].user) = activations[2].expiry

\* C9: after activate(u, d1) and then activate(u, d2), the stored expiry of
\* u is the time of the later call plus d2 days, also when that is earlier
\* than the expiry the first call stored.
C9_LastWriteWins ==
    \A u \in UserIds :
        LET calls == {k \in DOMAIN activations : activations[k].user = u}
        IN  IF calls = {}
            THEN u \notin DOMAIN active_subscriptions
            ELSE LET last == CHOOSE k \in calls : \A j \in calls : j <= k
                 IN  EntryOf(active_subscriptions, u)
                        = activations[last].at + activations[last].days * TicksPerDay

\* C9 witness: two activations of one user, the second with the shorter
\* duration and an expiry earlier than the first one's, which it replaced.
C9_Witness ==
    \E j, k \in DOMAIN activations :
        /\ j < k
        /\ activations[j].user = activations[k].user
        /\ activations[k].days < activations[j].days
        /\ activations[k].expiry < activations[j].expiry
        /\ EntryOf(active_subscriptions, activations[k].user) = activations[k].expiry

\* C10: a charge id that payment_history holds keeps its record (user_id,
\* amount, currency, timestamp, status) when the same completed payment
\* (same charge id, payer, amount and currency) is processed again.
C10_RecordedChargeUnchanged ==
    [][\A c \in DOMAIN payment_history :
         /\ c \in DOMAIN payment_history'
         /\ (/\ payment_history'[c].user_id = payment_history[c].user_id
             /\ payment_history'[c].amount = payment_history[c].amount
             /\ payment_history'[c].currency = payment_history[c].currency)
                => payment_history'[c] = payment_history[c]
    ]_vars

\* The activate calls made for user u, as positions in the activation log.
ActivationsOf(u) == {k \in DOMAIN activations : activations[k].user = u}
LastOf(u) == CHOOSE k \in ActivationsOf(u) : \A j \in ActivationsOf(u) : j <= k
\* A caller of the store holds the answers it has just read for user u.
IsCheck(t) == t.kind = "check" /\ t.pc = "check_return"

\* C11: an isActive(u) check made after activate(u, d), d > 0, before the
\* clock has advanced by d days from the activation, returns true, whatever
\* u's entry was before that activation.
C11_ActiveRightAfterActivate ==
    \A i \in Slots :
        (/\ IsCheck(tasks[i])
         /\ ActivationsOf(tasks[i].user) # {}
         /\ now - activations[LastOf(tasks[i].user)].at
                < activations[LastOf(tasks[i].user)].days * TicksPerDay)
            => tasks[i].calls = <<"active">>

\* C11 witness: u's first entitlement had run out when u was activated
\* again; a check made one tick after the second activation says active.
C11_Witness ==
    \E i \in Slots :
        /\ IsCheck(tasks[i]) /\ tasks[i].calls = <<"active">>
        /\ Len(activations) = 2
        /\ activations[1].user = tasks[i].user
        /\ activations[2].user = tasks[i].user
        /\ activations[1].expiry <= activations[2].at
        /\ now = activations[2].at + 1

\* What a handler that read the store for its user reports: active or not.
ReportsActive(t) ==
    \/ t.kind = "status" /\ t.calls[1] = "status_active"
    \/ t.kind = "start" /\ t.calls[1] = "already_premium"
    \/ t.kind = "callback" /\ t.shown # <<>> /\ t.shown[1].expiry # None
    \/ t.kind = "check" /\ t.calls[1] = "active"
ReadsStore(t) ==
    \/ t.kind \in {"status", "start", "check"}
    \/ t.kind = "callback" /\ t.shown # <<>>

\* C12: a user for whom activate was never called has no entry (expiryOf is
\* None) and every handler that read the store for that user found the user
\* not active, whatever was handled for other users and whichever events of
\* that user were rejected.
C12_NeverActivatedInactive ==
    \A u \in UserIds :
        ActivationsOf(u) = {} =>
            /\ EntryOf(active_subscriptions, u) = None
            /\ \A i \in Slots :
                 (tasks[i].user = u /\ ReadsStore(tasks[i]))
                    => /\ ~ReportsActive(tasks[i])
                       /\ tasks[i].shown = <<>> \/ tasks[i].shown[1].expiry = None

\* C12 witness: after another user's payment activated that user, /status
\* of a user who never was activated ended with the not-subscribed reply.
C12_Witness ==
    \E i \in Slots :
        /\ tasks[i].kind = "status" /\ tasks[i].pc = "done"
        /\ tasks[i].sent = <<"status_inactive">>
        /\ ActivationsOf(tasks[i].user) = {}
        /\ Len(activations) = 1
        /\ check_premium_status(active_subscriptions, activations[1].user, now)

InSeq(x, q) == \E k \in DOMAIN q : q[k] = x

\* C13: the messages the user has for a completed payment agree with what
\* the event did: a failure message (the rejection or the generic failure)
\* only if the event made no activation, the success message only if it
\* activated, also when a gateway send raises after the activation.
C13_OutcomeAgreesWithState ==
    \A i \in Slots :
        IsPayment(tasks[i]) =>
            /\ (InSeq("pay_rejected", tasks[i].sent) \/ InSeq("pay_error", tasks[i].sent))
                    => tasks[i].act = 0
            /\ InSeq("pay_success", tasks[i].sent) => tasks[i].act = 1

\* C14: with handlers of one user interleaving at their awaits, the stored
\* expiry of a user is the value computed by the activation that ran last,
\* every payment handler that activated has its activation in the log with
\* the expiry it was returned, and the expiry a /status query shows is one
\* that a whole activation stored.
C14_ActivationsSerialized ==
    /\ \A u \in UserIds :
         ActivationsOf(u) # {} =>
            EntryOf(active_subscriptions, u)
                = activations[LastOf(u)].at + PREMIUM_DURATION_DAYS * TicksPerDay
    /\ \A i \in Slots :
         IsPayment(tasks[i]) =>
            /\ tasks[i].act = 1
            /\ \E k \in ActivationsOf(tasks[i].user) :
                 /\ activations[k].charge = tasks[i].charge
                 /\ activations[k].expiry = tasks[i].expiry_date
                 /\ activations[k].expiry
                        = activations[k].at + PREMIUM_DURATION_DAYS * TicksPerDay
    /\ \A i \in Slots :
         (tasks[i].kind = "status" /\ tasks[i].calls[1] = "status_active") =>
            \E k \in ActivationsOf(tasks[i].user) :
                tasks[i].shown[1].expiry = activations[k].expiry

\* C14 witness: two payment handlers of one user are suspended at their
\* sends at the same time, having activated at different times; the entry
\* is the one the second stored.
C14_Witness ==
    /\ \A i \in Slots : IsPayment(tasks[i]) /\ tasks[i].pc = "pay_send"
    /\ Len(activations) = 2
    /\ activations[1].user = activations[2].user
    /\ activations[1].expiry < activations[2].expiry
    /\ EntryOf(active_subscriptions, activations[2].user) = activations[2].expiry

\* C15: no exception leaves a handler: whichever gateway call raises, in
\* the try block or inside an except clause, the handler catches it.
C15_NoExceptionEscapes ==
    \A i \in Slots : ~tasks[i].escaped

\* C16: a completed payment that fails validation ends, on every path, with
\* the rejection outcome: the user has the rejection message, and nothing
\* else, and the invalid-payment warning is logged.
C16_RejectionNeverDropped ==
    \A i \in Slots :
        (/\ IsPayment(tasks[i])
         /\ ~WithinPolicy(tasks[i].currency, tasks[i].amount)
         /\ tasks[i].pc = "done")
            => tasks[i].sent = <<"pay_rejected">> /\ tasks[i].warned

\* C17: no step removes a key of active_subscriptions; a read made for a
\* user once the clock has reached the expiry the user's last activation
\* stored finds the user not active, and get_expiry_date still returns
\* that stored expiry.
C17_NeverDeletedExpiredAtRead ==
    [][/\ DOMAIN active_subscriptions \subseteq DOMAIN active_subscriptions'
       /\ \A i \in Slots :
            (/\ IsCheck(tasks'[i]) /\ ~IsCheck(tasks[i])
             /\ ActivationsOf(tasks'[i].user) # {}) =>
                LET last == activations[LastOf(tasks'[i].user)]
                IN  /\ tasks'[i].expiry_date = last.at + last.days * TicksPerDay
                    /\ now >= last.at + last.days * TicksPerDay
                            => tasks'[i].calls = <<"inactive">>
    ]_vars

\* C17 witness: a user's entitlement ran out, another user was activated
\* after that, and a later read for the first user says not active and
\* returns the past expiry.
C17_Witness ==
    \E i \in Slots :
        /\ IsCheck(tasks[i]) /\ tasks[i].calls = <<"inactive">>
        /\ tasks[i].expiry_date # None /\ tasks[i].expiry_date < now
        /\ Len(activations) = 2
        /\ activations[1].user = tasks[i].user
        /\ activations[2].user # tasks[i].user
        /\ activations[2].at >= activations[1].expiry
        /\ tasks[i].expiry_date = activations[1].expiry

\* C18: when the 2.x /status handler reports the subscription active, the
\* expiry it shows is one an activation of that user stored and the hours
\* remaining it shows are not negative, although the clock is read again
\* after the activity check.
C18_StatusRemainingNonNegative ==
    \A i \in Slots :
        (/\ variant = "2x"
         /\ tasks[i].kind = "status"
         /\ tasks[i].calls[1] = "status_active") =>
            /\ \E k \in ActivationsOf(tasks[i].user) :
                    tasks[i].shown[1].expiry = activations[k].expiry
            /\ tasks[i].shown[1].hours >= 0

\* C19: the invoice /start issues for a user is in XTR for STAR_PRICE; a
\* pre-checkout query carrying that invoice's fields, made by the invoiced
\* user, is approved by the running variant's handler, and the completed
\* payment with the same fields is accepted and activates.
C19_InvoiceRoundTrip ==
    /\ \A inv \in invoices : inv.currency = "XTR" /\ inv.amount = STAR_PRICE
    /\ \A i \in Slots, inv \in invoices :
         (/\ inv.payload = InvoicePayload(variant, tasks[i].user)
          /\ tasks[i].currency = inv.currency
          /\ tasks[i].amount = inv.amount /\ tasks[i].payload = inv.payload) =>
            /\ IsPreCheckout(tasks[i]) => tasks[i].calls[1] = "ok"
            /\ IsPayment(tasks[i]) =>
                    tasks[i].calls[1] = "pay_success" /\ tasks[i].act = 1

\* C19 witness: in 2.x, user 99 was sent an invoice, its pre-checkout query
\* was approved and its payment ended with the success message.
C19_Witness ==
    /\ variant = "2x"
    /\ \E inv \in invoices : inv.chat = 99 /\ inv.payload = InvoicePayload(variant, 99)
    /\ \E i \in Slots :
         /\ IsPayment(tasks[i]) /\ tasks[i].user = 99 /\ tasks[i].pc = "done"
         /\ tasks[i].sent = <<"pay_success">>
         /\ tasks[i].amount = STAR_PRICE
         /\ check_premium_status(active_subscriptions, 99, now)

\* C20: the clock never goes back and every activation is for
\* PREMIUM_DURATION_DAYS, so no step lowers a user's stored expiry: an
\* accepted payment stores a value at least as large as the one before.
C20_ExpiryNeverDecreases ==
    [][\A u \in DOMAIN active_subscriptions :
         /\ u \in DOMAIN active_subscriptions'
         /\ active_subscriptions'[u] >= active_subscriptions[u]
    ]_vars

\* C20 witness: a user paid, the clock advanced, the user paid again and
\* the stored expiry is the second, later one.
C20_Witness ==
    /\ Len(activations) = 2
    /\ activations[1].user = activations[2].user
    /\ activations[1].at < activations[2].at
    /\ activations[2].at < activations[1].expiry
    /\ EntryOf(active_subscriptions, activations[2].user) = activations[2].expiry
    /\ activations[2].expiry > activations[1].expiry

\* The entitlement as the specification defines it: now < expiresAt.
ActiveAt(subs, u, clock) == EntryOf(subs, u) # None /\ clock < EntryOf(subs, u)
Count(x, q) == Cardinality({k \in DOMAIN q : q[k] = x})
\* The invoice /start is to issue for user u: it carries the payload built
\* from u (2.x sends it to u, 3.x to the chat /start came from).
InvoiceFor(invs, u) ==
    {inv \in invs : /\ inv.payload = InvoicePayload(variant, u)
                    /\ inv.currency = "XTR" /\ inv.amount = STAR_PRICE}

\* What a step of the /start handler in slot i has to satisfy.  Entered for
\* an active user it replies already-premium; it never changes the store,
\* the ledger or the log; after already-premium it requests no invoice; it
\* requests at most one invoice; and, handled for a user who was not
\* active, it ends with exactly one invoice sent: on every path if
\* every_path, otherwise on the paths where no gateway call raised.
StartObligation(i, every_path) ==
    (tasks'[i].kind = "start" /\ tasks'[i] # tasks[i]) =>
        /\ active_subscriptions' = active_subscriptions
        /\ payment_history' = payment_history
        /\ activations' = activations
        /\ events' # events =>
             IF ActiveAt(active_subscriptions, tasks'[i].user, now)
             THEN tasks'[i].calls = <<"already_premium">>
             ELSE tasks'[i].calls[1] # "already_premium"
        /\ tasks'[i].calls[1] = "already_premium" =>
             Count("invoice", tasks'[i].calls) = 0 /\ invoices' = invoices
        /\ Count("invoice", tasks'[i].calls) <= 1
        /\ (/\ tasks'[i].pc = "done"
            /\ tasks'[i].calls[1] # "already_premium"
            /\ every_path \/ tasks'[i].sent = tasks'[i].calls) =>
                /\ Count("invoice", tasks'[i].sent) = 1
                /\ InvoiceFor(invoices', tasks'[i].user) # {}

\* C21 as stated: /start replies already-premium to an active user, sends
\* no invoice and changes no state, and for a user with no entry or an
\* expired entry exactly one invoice is sent.
C21_InvoiceExactlyWhenInactive ==
    [][\A i \in Slots : StartObligation(i, TRUE)]_vars

\* C21 amended: as stated for the active user; for a user with no entry or
\* an expired entry at most one invoice is requested, and exactly one is
\* sent when no gateway call of the handler raises.
C21_InvoiceOnlyWhenInactive ==
    [][\A i \in Slots : StartObligation(i, FALSE)]_vars

\* C21 witness: in 2.x a user paid, the entitlement ran out, and /start of
\* that user then sent the welcome message and one invoice.
C21_Witness ==
    \E i \in Slots :
        /\ variant = "2x"
        /\ tasks[i].kind = "start" /\ tasks[i].pc = "done"
        /\ tasks[i].sent = <<"welcome", "invoice">>
        /\ EntryOf(active_subscriptions, tasks[i].user) # None
        /\ EntryOf(active_subscriptions, tasks[i].user) <= now
        /\ InvoiceFor(invoices, tasks[i].user) # {}

\* The users the ledger holds a completed record for.
Recorded(history) ==
    {history[c].user_id : c \in {x \in DOMAIN history : history[x].status = "completed"}}

\* C22: in 2.x, after every step each user with an entry in
\* active_subscriptions has a completed payment_history record of their
\* own, and a step that writes the ledger is a step that activates the
\* user the written record names.
C22_LedgerInStepWithStore ==
    [][variant = "2x" =>
         /\ DOMAIN active_subscriptions' \subseteq Recorded(payment_history')
         /\ payment_history' # payment_history =>
              /\ Len(activations') = Len(activations) + 1
              /\ LastActivation(activations').charge \in DOMAIN payment_history'
              /\ payment_history'[LastActivation(activations').charge].user_id
                     = LastActivation(activations').user
              /\ \A c \in DOMAIN payment_history :
                     c # LastActivation(activations').charge
                        => /\ c \in DOMAIN payment_history'
                           /\ payment_history'[c] = payment_history[c]
    ]_vars

====
